---- MODULE Spec2Model ----
(***************************************************************************)
(* A model of the siwe-recap capability library: the Ability grammar and   *)
(* total order (ability.rs), the parsers of Action (action.rs) and of      *)
(* Namespace (namespace.rs), and the Capability set with its builder       *)
(* operations, codec, statement generation and verification                *)
(* (capability.rs).                                                        *)
(*                                                                         *)
(* Rust strings are modelled as sequences of one-character strings, so     *)
(* that splitting, prefix and suffix tests and byte-wise comparison are    *)
(* computed and not assumed.  A BTreeMap is a function whose domain is the *)
(* key set; its iteration order is obtained by sorting the keys with the   *)
(* key type's Ord.                                                         *)
(***************************************************************************)
EXTENDS Integers, Sequences, FiniteSets, TLC

VARIABLES cap, message, call, result

vars == <<cap, message, call, result>>

(***************************************************************************)
(* Bounds of the model.                                                    *)
(***************************************************************************)
\* longest text handed to the parsers and longest Ability text compared
MaxLen == 4
\* number of builder calls made on one capability
MaxOps == 3
\* number of entries in a received message's resource list
MaxResources == 2

(***************************************************************************)
(* Characters and bytes.                                                   *)
(***************************************************************************)
\* the printable ASCII characters in byte order; ASCII[i] has byte value i + 31
\* (<backslash> and <backtick> hold the places of bytes 92 and 96, which no modelled text uses)
ASCII == <<" ", "!", "\"", "#", "$", "%", "&", "'", "(", ")", "*", "+", ",", "-", ".", "/", "0", "1", "2", "3", "4", "5", "6", "7", "8", "9", ":", ";", "<", "=", ">", "?", "@", "A", "B", "C", "D", "E", "F", "G", "H", "I", "J", "K", "L", "M", "N", "O", "P", "Q", "R", "S", "T", "U", "V", "W", "X", "Y", "Z", "[", "<backslash>", "]", "^", "_", "<backtick>", "a", "b", "c", "d", "e", "f", "g", "h", "i", "j", "k", "l", "m", "n", "o", "p", "q", "r", "s", "t", "u", "v", "w", "x", "y", "z", "{", "|", "}", "~">>

\* the position of a character in a table
index_of(table, c) == CHOOSE i \in 1..Len(table) : table[i] = c

\* str::as_bytes for one (ASCII) character: its u8 value
Byte(c) == 31 + index_of(ASCII, c)

\* the byte ranges 0-9, A-Z, a-z
is_alphanumeric_byte(b) == b \in (48..57) \cup (65..90) \cup (97..122)

\* char::is_alphanumeric, on the ASCII range
is_alphanumeric(c) == is_alphanumeric_byte(Byte(c))

\* Ordering values of std::cmp::Ordering
Less == "Less"
Equal == "Equal"
Greater == "Greater"

\* Ord::cmp on integers (u8 and usize)
int_cmp(x, y) == IF x < y THEN Less ELSE IF x > y THEN Greater ELSE Equal

(***************************************************************************)
(* String helpers (std::str).                                              *)
(***************************************************************************)
\* str::starts_with
starts_with(s, p) == Len(p) <= Len(s) /\ SubSeq(s, 1, Len(p)) = p

\* str::ends_with
ends_with(s, p) == Len(p) <= Len(s) /\ SubSeq(s, Len(s) - Len(p) + 1, Len(s)) = p

\* str::contains(char)
contains_char(s, c) == \E i \in 1..Len(s) : s[i] = c

\* the walk over the zipped bytes of two texts: the first comparison that is
\* not Equal, or Equal when the shorter text is used up
RECURSIVE zip_cmp(_, _)
zip_cmp(s, t) ==
    IF s = <<>> \/ t = <<>> THEN Equal
    ELSE IF Head(s) # Head(t) THEN int_cmp(Byte(Head(s)), Byte(Head(t)))
    ELSE zip_cmp(Tail(s), Tail(t))

\* the result of a walk that fell through, decided by a second comparison
or_else(ord, second) == IF ord # Equal THEN ord ELSE second

\* Ord for str / String: byte-wise lexicographic, a proper prefix first
str_cmp(s, t) == or_else(zip_cmp(s, t), int_cmp(Len(s), Len(t)))

(***************************************************************************)
(* ability.rs                                                              *)
(***************************************************************************)
ALLOWED_CHARS == <<"-", "_", ".", "+", "*">>

not_allowed(c) == ~is_alphanumeric(c) /\ ~contains_char(ALLOWED_CHARS, c)

\* Result values of the parsers.  An Ok carries the parsed value, an Err the
\* error variant and the text it carries; unused fields hold fillers.
ParseOk(v) == [ok |-> TRUE, val |-> v, err |-> "", text |-> <<>>]
ParseErr(e, t) == [ok |-> FALSE, val |-> <<>>, err |-> e, text |-> t]

\* impl FromStr for AbilityNamespace
AbilityNamespace_from_str(s) ==
    IF s = <<>> \/ (\E i \in 1..Len(s) : not_allowed(s[i]))
    THEN ParseErr("InvalidCharacter", s)
    ELSE ParseOk(s)

\* impl FromStr for AbilityName
AbilityName_from_str(s) ==
    IF s = <<>> \/ (\E i \in 1..Len(s) : not_allowed(s[i]))
    THEN ParseErr("InvalidCharacter", s)
    ELSE ParseOk(s)

\* An Ability is the pair <<namespace, name>> (struct Ability(AbilityNamespace, AbilityName))
namespace(a) == a[1]
name(a) == a[2]

\* str::split_once on the slash: the index of the first slash, 0 when there is none
first_slash(s) ==
    IF contains_char(s, "/")
    THEN CHOOSE i \in 1..Len(s) : s[i] = "/" /\ \A j \in 1..(i - 1) : s[j] # "/"
    ELSE 0

\* A mutant of Ability_of_halves: reports the name half before the namespace half
Ability_of_halves_name_first(ns, nm) ==
    IF ~nm.ok THEN ParseErr("Name", nm.text)
    ELSE IF ~ns.ok THEN ParseErr("Namespace", ns.text)
    ELSE ParseOk(<<ns.val, nm.val>>)

\* the closure of Ability::from_str on the parsed halves: ns.parse()? comes
\* first, then name.parse()?.  The error is ActionParseError::Namespace(..) or
\* Name(..), wrapping the half's InvalidCharacter(text).
Ability_of_halves(ns, nm) ==
    IF ~ns.ok THEN ParseErr("Namespace", ns.text)
    ELSE IF ~nm.ok THEN ParseErr("Name", nm.text)
    ELSE ParseOk(<<ns.val, nm.val>>)

\* Ability::from_str once the separator is located at index i
Ability_of_split(s, i) ==
    IF i = 0
    THEN ParseErr("MissingSeparator", <<>>)
    ELSE Ability_of_halves(AbilityNamespace_from_str(SubSeq(s, 1, i - 1)),
                           AbilityName_from_str(SubSeq(s, i + 1, Len(s))))

\* impl FromStr for Ability
Ability_from_str(s) == Ability_of_split(s, first_slash(s))

\* impl Display for Ability: "{}/{}"
Ability_to_string(a) == namespace(a) \o <<"/">> \o name(a)

\* Ability::len
Ability_len(a) == Len(namespace(a)) + Len(name(a)) + 1

\* A mutant of cmp: the derived order (namespace first, then name)
cmp_derived(a, b) == or_else(str_cmp(namespace(a), namespace(b)), str_cmp(name(a), name(b)))

\* impl Ord for Ability: walk the zipped bytes of [namespace, "/", name], return
\* the first unequal comparison, else compare the lengths
cmp(a, b) ==
    or_else(zip_cmp(namespace(a) \o <<"/">> \o name(a), namespace(b) \o <<"/">> \o name(b)),
            int_cmp(Ability_len(a), Ability_len(b)))

(***************************************************************************)
(* action.rs                                                               *)
(***************************************************************************)
\* the closure handed to str::contains by ActionNamespace::from_str and
\* ActionName::from_str, as it is written: a disjunction of inequalities
action_char_rejected(c) ==
    ~is_alphanumeric(c) \/ c # "-" \/ c # "." \/ c # "_" \/ c # "+"

\* impl FromStr for ActionNamespace
ActionNamespace_from_str(s) ==
    IF \E i \in 1..Len(s) : action_char_rejected(s[i])
    THEN ParseErr("InvalidCharacter", s)
    ELSE ParseOk(s)

\* impl FromStr for ActionName
ActionName_from_str(s) ==
    IF \E i \in 1..Len(s) : action_char_rejected(s[i])
    THEN ParseErr("InvalidCharacter", s)
    ELSE ParseOk(s)

\* the closure of Action::from_str on the two halves of split_once('/')
Action_of_halves(ns, nm) ==
    IF ~ns.ok THEN ParseErr("Namespace", ns.text)
    ELSE IF ~nm.ok THEN ParseErr("Name", nm.text)
    ELSE ParseOk(<<ns.val, nm.val>>)

\* impl FromStr for Action
Action_from_str(s) ==
    IF first_slash(s) = 0
    THEN ParseErr("MissingSeparator", <<>>)
    ELSE Action_of_halves(ActionNamespace_from_str(SubSeq(s, 1, first_slash(s) - 1)),
                          ActionName_from_str(SubSeq(s, first_slash(s) + 1, Len(s))))

(***************************************************************************)
(* namespace.rs                                                            *)
(***************************************************************************)
\* char::is_ascii_alphanumeric
is_ascii_alphanumeric(c) == is_alphanumeric_byte(Byte(c))

\* the loop of Namespace::from_str from the i-th character on, and the test
\* after it; the errors carry no text
RECURSIVE Namespace_scan(_, _, _)
Namespace_scan(s, i, previous_char_was_alphanum) ==
    IF i > Len(s)
    THEN IF ~previous_char_was_alphanum
         THEN ParseErr("InvalidNamespaceHyphens", <<>>)
         ELSE ParseOk(s)
    ELSE IF is_ascii_alphanumeric(s[i]) THEN Namespace_scan(s, i + 1, TRUE)
    ELSE IF s[i] = "-" /\ previous_char_was_alphanum THEN Namespace_scan(s, i + 1, FALSE)
    ELSE IF s[i] = "-" THEN ParseErr("InvalidNamespaceHyphens", <<>>)
    ELSE ParseErr("InvalidNamespaceChars", <<>>)

\* A mutant of Namespace_from_str: the walk starts as if after an alphanumeric
Namespace_from_str_after_alphanum(s) == Namespace_scan(s, 1, TRUE)

\* impl FromStr for Namespace
Namespace_from_str(s) == Namespace_scan(s, 1, FALSE)

(***************************************************************************)
(* capability.rs: the data model                                           *)
(***************************************************************************)
\* BTreeMap::new
EmptyMap == [k \in {} |-> <<>>]

\* BTreeMap::get(k), with the value of or_default() for an absent key
get_or(m, k, d) == IF k \in DOMAIN m THEN m[k] ELSE d

\* BTreeMap::insert, and the effect of writing through entry(k).or_default()
insert(m, k, v) == [x \in (DOMAIN m) \cup {k} |-> IF x = k THEN v ELSE m[x]]

\* entry(k).or_default().extend(items) on a map of Vecs
extend_at(m, k, items) == insert(m, k, get_or(m, k, <<>>) \o items)

\* the elements of a Vec
Range(s) == {s[i] : i \in 1..Len(s)}

\* Vec::contains
contains(v, x) == \E i \in 1..Len(v) : v[i] = x

\* the least key of a set of strings in the derived (string) order
least_str(S) == CHOOSE x \in S : \A y \in S : str_cmp(x, y) # Greater

\* iteration order of a BTreeMap keyed by UriString or by AbilityNamespace:
\* ascending in the derived (string) order
RECURSIVE str_keys_from(_, _)
str_keys_from(S, m) == IF S = {} THEN <<>> ELSE <<m>> \o str_keys_from(S \ {m}, least_str(S \ {m}))
str_keys(S) == str_keys_from(S, least_str(S))

\* the least key of a set of abilities in Ability's cmp
least_ability(S) == CHOOSE x \in S : \A y \in S : cmp(x, y) # Greater

\* iteration order of a BTreeMap keyed by Ability: ascending in Ability's cmp
RECURSIVE ability_keys_from(_, _)
ability_keys_from(S, m) ==
    IF S = {} THEN <<>> ELSE <<m>> \o ability_keys_from(S \ {m}, least_ability(S \ {m}))
ability_keys(S) == ability_keys_from(S, least_ability(S))

\* struct Capability { attenuations, proof }
Capability(att, prf) == [attenuations |-> att, proof |-> prf]

\* Capability::new
new == Capability(EmptyMap, <<>>)

\* Option<T>
None == [some |-> FALSE, val |-> <<>>]
Some(s) == [some |-> TRUE, val |-> s]

\* Capability::abilities: the attenuations, iterated in key order
abilities_of(self) == self.attenuations

\* Capability::proof: the proofs as a slice, in the order of the Vec
proof_of(self) == self.proof

\* Capability::can_do: the slot's NotaBene list, or None
can_do(self, target, action) ==
    IF target \in DOMAIN self.attenuations /\ action \in DOMAIN self.attenuations[target]
    THEN Some(self.attenuations[target][action])
    ELSE None

\* Capability::with_action
with_action(self, target, action, nb) ==
    [self EXCEPT !.attenuations =
        insert(self.attenuations, target,
               extend_at(get_or(self.attenuations, target, EmptyMap), action, nb))]

\* the loop of with_actions over (ability, nbs) pairs, on one target's entry
RECURSIVE extend_entry(_, _)
extend_entry(entry, abilities) ==
    IF abilities = <<>> THEN entry
    ELSE extend_entry(extend_at(entry, Head(abilities)[1], Head(abilities)[2]), Tail(abilities))

\* Capability::with_actions
with_actions(self, target, abilities) ==
    [self EXCEPT !.attenuations =
        insert(self.attenuations, target,
               extend_entry(get_or(self.attenuations, target, EmptyMap), abilities))]

\* A mutant of push_absent: pushes every proof, present or not
push_always(proof, proofs) == proof \o proofs

\* the loop shared by with_proofs and merge: push each proof not yet contained
RECURSIVE push_absent(_, _)
push_absent(proof, proofs) ==
    IF proofs = <<>> THEN proof
    ELSE IF contains(proof, Head(proofs))
         THEN push_absent(proof, Tail(proofs))
         ELSE push_absent(Append(proof, Head(proofs)), Tail(proofs))

\* Capability::with_proof
with_proof(self, proof) ==
    IF contains(self.proof, proof) THEN self
    ELSE [self EXCEPT !.proof = Append(self.proof, proof)]

\* Capability::with_proofs
with_proofs(self, proofs) == [self EXCEPT !.proof = push_absent(self.proof, proofs)]

\* A mutant of merge_abilities: the other operand's list is appended back to front
RECURSIVE merge_abilities_reversed(_, _, _)
merge_abilities_reversed(res_entry, abs, keys) ==
    IF keys = <<>> THEN res_entry
    ELSE merge_abilities_reversed(
            extend_at(res_entry, Head(keys),
                      [i \in 1..Len(abs[Head(keys)]) |->
                          abs[Head(keys)][Len(abs[Head(keys)]) + 1 - i]]),
            abs, Tail(keys))

\* the inner loop of merge: extend the entries of one target with another's
RECURSIVE merge_abilities(_, _, _)
merge_abilities(res_entry, abs, keys) ==
    IF keys = <<>> THEN res_entry
    ELSE merge_abilities(extend_at(res_entry, Head(keys), abs[Head(keys)]), abs, Tail(keys))

\* the outer loop of merge over the other capability's targets
RECURSIVE merge_attenuations(_, _, _)
merge_attenuations(att, other, keys) ==
    IF keys = <<>> THEN att
    ELSE merge_attenuations(
            insert(att, Head(keys),
                   merge_abilities(get_or(att, Head(keys), EmptyMap), other[Head(keys)],
                                   ability_keys(DOMAIN other[Head(keys)]))),
            other, Tail(keys))

\* A mutant of merge: an overlapping slot keeps only the other operand's list
merge_overwrite(self, other) ==
    Capability(
        [t \in (DOMAIN self.attenuations) \cup (DOMAIN other.attenuations) |->
            [ab \in (DOMAIN get_or(self.attenuations, t, EmptyMap))
                    \cup (DOMAIN get_or(other.attenuations, t, EmptyMap)) |->
                IF ab \in DOMAIN get_or(other.attenuations, t, EmptyMap)
                THEN other.attenuations[t][ab]
                ELSE self.attenuations[t][ab]]],
        push_absent(self.proof, other.proof))

\* Capability::merge
merge(self, other) ==
    Capability(
        merge_attenuations(self.attenuations, other.attenuations,
                           str_keys(DOMAIN other.attenuations)),
        push_absent(self.proof, other.proof))

(***************************************************************************)
(* capability.rs: the codec.                                               *)
(*                                                                         *)
(* serde_json and base64 are libraries outside the repository.  What the   *)
(* repository decides is the shape handed to them: the field names, the    *)
(* map keys written with Display and read back with FromStr, and the       *)
(* collections the entries are gathered into.  The JSON text is therefore  *)
(* modelled as the document tree it denotes:                               *)
(*   [att |-> sequence of <<target text, sequence of <<ability text, nbs>>>>,*)
(*    prf |-> sequence of proof texts]                                     *)
(* and the base64 text as a payload holding the bytes it decodes to.       *)
(***************************************************************************)
\* Result values of the codec
DecOk(c) == [ok |-> TRUE, val |-> c, err |-> ""]
DecErr(e) == [ok |-> FALSE, val |-> new, err |-> e]

\* UriString's Display (DisplayFromStr, serializing side): the URI's own text
UriString_to_string(u) == u

\* str::find(char): the index of the first occurrence of a character that occurs
first_index(s, c) == CHOOSE i \in 1..Len(s) : s[i] = c /\ \A j \in 1..(i - 1) : s[j] # c

\* a URI scheme ending before index c: a letter, then letters, digits, + - .
is_scheme(s, c) ==
    /\ c > 1
    /\ Byte(s[1]) \in (65..90) \cup (97..122)
    /\ \A j \in 2..(c - 1) : is_alphanumeric(s[j]) \/ s[j] \in {"+", "-", "."}

\* UriString's FromStr (DisplayFromStr, deserializing side): the text must
\* start with a scheme and a colon and hold no space or double quote
UriString_from_str(s) ==
    IF /\ contains_char(s, ":")
       /\ is_scheme(s, first_index(s, ":"))
       /\ \A i \in 1..Len(s) : s[i] \notin {" ", "\""}
    THEN ParseOk(s)
    ELSE ParseErr("UriParse", s)

\* the texts that are content identifiers; a Cid is modelled by its canonical text
CidTexts == {<<"c", "1">>, <<"c", "2">>, <<"c", "3">>}

\* Cid's Display
Cid_to_string(c) == c

\* Cid's FromStr
Cid_from_str(s) == IF s \in CidTexts THEN ParseOk(s) ELSE ParseErr("Cid", s)

\* serializing one target's BTreeMap<Ability, NotaBene>, keys in map order
serialize_abilities(m, abs) == [j \in 1..Len(abs) |-> <<Ability_to_string(abs[j]), m[abs[j]]>>]

\* serializing the attenuations, keys in map order
serialize_attenuations(att, uris) ==
    [i \in 1..Len(uris) |->
        <<UriString_to_string(uris[i]),
          serialize_abilities(att[uris[i]], ability_keys(DOMAIN att[uris[i]]))>>]

\* #[derive(Serialize)] on Capability: att keyed by the targets' texts in map
\* order, each holding its abilities' texts in map order; prf in Vec order
serialize(self) ==
    [att |-> serialize_attenuations(self.attenuations, str_keys(DOMAIN self.attenuations)),
     prf |-> [i \in 1..Len(self.proof) |-> Cid_to_string(self.proof[i])]]

\* deserializing one target's object into a BTreeMap<Ability, NotaBene>: each
\* key is parsed, a repeated key keeps its last value
RECURSIVE de_abilities(_, _)
RECURSIVE de_ability(_, _, _)
de_ability(k, entries, acc) ==
    IF ~k.ok THEN [ok |-> FALSE, val |-> EmptyMap]
    ELSE de_abilities(Tail(entries), insert(acc, k.val, Head(entries)[2]))
de_abilities(entries, acc) ==
    IF entries = <<>> THEN [ok |-> TRUE, val |-> acc]
    ELSE de_ability(Ability_from_str(Head(entries)[1]), entries, acc)

\* deserializing att into a BTreeMap<UriString, _>
RECURSIVE de_attenuations(_, _)
RECURSIVE de_attenuation(_, _, _, _)
de_attenuation(k, v, entries, acc) ==
    IF ~k.ok \/ ~v.ok THEN [ok |-> FALSE, val |-> EmptyMap]
    ELSE de_attenuations(Tail(entries), insert(acc, k.val, v.val))
de_attenuations(entries, acc) ==
    IF entries = <<>> THEN [ok |-> TRUE, val |-> acc]
    ELSE de_attenuation(UriString_from_str(Head(entries)[1]),
                        de_abilities(Head(entries)[2], EmptyMap), entries, acc)

\* deserializing prf into a Vec<Cid>: every entry is parsed and kept in order
de_proof(texts) ==
    IF \E i \in 1..Len(texts) : ~Cid_from_str(texts[i]).ok
    THEN [ok |-> FALSE, val |-> <<>>]
    ELSE [ok |-> TRUE, val |-> [i \in 1..Len(texts) |-> Cid_from_str(texts[i]).val]]

\* the struct made of its two deserialized fields
Capability_of_fields(att, prf) ==
    IF att.ok /\ prf.ok THEN DecOk(Capability(att.val, prf.val)) ELSE DecErr("De")

\* #[derive(Deserialize)] on Capability
deserialize(doc) == Capability_of_fields(de_attenuations(doc.att, EmptyMap), de_proof(doc.prf))

\* A piece of text that may end in base64: the literal characters, then the
\* payload.  A payload is absent, or base64 of bytes that are or are not a JSON
\* document of the capability's shape.
EmptyDoc == [att |-> <<>>, prf |-> <<>>]
NoPayload == [kind |-> "none", json |-> FALSE, doc |-> EmptyDoc]
Base64Of(doc) == [kind |-> "base64", json |-> TRUE, doc |-> doc]
Base64OfJunk == [kind |-> "base64", json |-> FALSE, doc |-> EmptyDoc]
Text(chars, payload) == [text |-> chars, payload |-> payload]

\* the URL_SAFE alphabet of base64
is_base64_char(c) == is_alphanumeric(c) \/ c \in {"-", "_"}

\* A mutant of encode: the proof list is left out of the payload
encode_without_proof(self) ==
    Text(<<>>, Base64Of([serialize(self) EXCEPT !.prf = <<>>]))

\* Capability::encode (serde_json::to_vec never fails on this shape)
encode(self) == Text(<<>>, Base64Of(serialize(self)))

\* Capability::decode
decode(encoded) ==
    IF \E i \in 1..Len(encoded.text) : ~is_base64_char(encoded.text[i])
    THEN DecErr("Base64Decode")
    ELSE IF encoded.text # <<>> \/ encoded.payload.kind = "none" \/ ~encoded.payload.json
    THEN DecErr("De")
    ELSE deserialize(encoded.payload.doc)

\* crate::RESOURCE_PREFIX
RESOURCE_PREFIX == <<"u", "r", "n", ":", "c", "a", "p", "a", "b", "i", "l", "i", "t", "y", ":">>

\* impl TryFrom<&UriString> for Capability
Capability_try_from(uri) ==
    IF starts_with(uri.text, RESOURCE_PREFIX)
    THEN decode(Text(SubSeq(uri.text, Len(RESOURCE_PREFIX) + 1, Len(uri.text)), uri.payload))
    ELSE DecErr("InvalidResourcePrefix")

\* A mutant of prefixed: the encoded text is used without the prefix
prefixed_bare(encoded) == encoded

\* the format! of the prefix and the encoded text
prefixed(encoded) == Text(RESOURCE_PREFIX \o encoded.text, encoded.payload)

\* impl TryFrom<&Capability> for UriString (the result always parses as a URI)
UriString_try_from(capability) == prefixed(encode(capability))

\* Result values of the converting operations: Ok(value), or
\* Err(ConvertError::InvalidTarget(e)) / Err(ConvertError::InvalidAction(e))
\* with the error e of the conversion that failed
ConvOk(v) == [ok |-> TRUE, val |-> v, err |-> "", inner |-> <<>>]
ConvErr(e, inner) == [ok |-> FALSE, val |-> <<>>, err |-> e, inner |-> inner]

\* impl TryFrom<&str> for Ability
Ability_try_from(s) == Ability_from_str(s)

\* A mutant of can_converted: the action's conversion is looked at first
can_converted_action_first(self, target, action) ==
    IF ~action.ok THEN ConvErr("InvalidAction", action)
    ELSE IF ~target.ok THEN ConvErr("InvalidTarget", target)
    ELSE ConvOk(can_do(self, target.val, action.val))

\* the body of can on the two conversions: the target's question mark comes
\* first, then the action's, then the lookup
can_converted(self, target, action) ==
    IF ~target.ok THEN ConvErr("InvalidTarget", target)
    ELSE IF ~action.ok THEN ConvErr("InvalidAction", action)
    ELSE ConvOk(can_do(self, target.val, action.val))

\* Capability::can, called with texts
can(self, target, action) ==
    can_converted(self, UriString_from_str(target), Ability_try_from(action))

\* the body of with_action_convert on the two conversions
with_action_converted(self, target, action, nb) ==
    IF ~target.ok THEN ConvErr("InvalidTarget", target)
    ELSE IF ~action.ok THEN ConvErr("InvalidAction", action)
    ELSE ConvOk(with_action(self, target.val, action.val, nb))

\* Capability::with_action_convert, called with texts
with_action_convert(self, target, action, nb) ==
    with_action_converted(self, UriString_from_str(target), Ability_try_from(action), nb)

\* the map(..).collect::<Result<Vec<_>, _>>() of with_actions_convert: the
\* converted pairs in order, or the error of the first ability that fails
RECURSIVE collect_abilities(_, _)

\* A mutant of collect_ability: a pair whose ability fails is left out
collect_ability_skipping(a, pairs, acc) ==
    IF ~a.ok THEN collect_abilities(Tail(pairs), acc)
    ELSE collect_abilities(Tail(pairs), Append(acc, <<a.val, Head(pairs)[2]>>))

\* one step of the collect, on the conversion of the first remaining pair
collect_ability(a, pairs, acc) ==
    IF ~a.ok THEN [ok |-> FALSE, val |-> <<>>, inner |-> a]
    ELSE collect_abilities(Tail(pairs), Append(acc, <<a.val, Head(pairs)[2]>>))

collect_abilities(pairs, acc) ==
    IF pairs = <<>> THEN [ok |-> TRUE, val |-> acc, inner |-> <<>>]
    ELSE collect_ability(Ability_try_from(Head(pairs)[1]), pairs, acc)

\* the body of with_actions_convert on the target's conversion and the
\* collected abilities
with_actions_converted(self, target, abilities) ==
    IF ~target.ok THEN ConvErr("InvalidTarget", target)
    ELSE IF ~abilities.ok THEN ConvErr("InvalidAction", abilities.inner)
    ELSE ConvOk(with_actions(self, target.val, abilities.val))

\* Capability::with_actions_convert, called with texts
with_actions_convert(self, target, abilities) ==
    with_actions_converted(self, UriString_from_str(target), collect_abilities(abilities, <<>>))

(***************************************************************************)
(* capability.rs: statement generation                                     *)
(***************************************************************************)
\* the fold of to_line_groups over one target's abilities, in map order:
\* BTreeMap<&AbilityNamespace, Vec<&AbilityName>>
RECURSIVE group_by_namespace(_, _)
group_by_namespace(abilities, map) ==
    IF abilities = <<>> THEN map
    ELSE group_by_namespace(
            Tail(abilities),
            extend_at(map, namespace(Head(abilities)), <<name(Head(abilities))>>))

\* the into_iter().map(..) of to_line_groups: one triple per namespace of the
\* grouping map, in the map's (string) order
groups_of(resource, map, nss) == [i \in 1..Len(nss) |-> <<resource, nss[i], map[nss[i]]>>]

\* A mutant of resource_groups: the namespaces in the order in which they
\* first occur among the target's abilities in Ability order
resource_groups_ability_order(resource, map) ==
    groups_of(resource, map,
              [i \in 1..Cardinality(DOMAIN map) |->
                    namespace(ability_keys({<<ns, <<>> >> : ns \in DOMAIN map})[i])])

\* the triples of one target, from its grouping map
resource_groups(resource, map) == groups_of(resource, map, str_keys(DOMAIN map))

\* the flat_map of to_line_groups over the targets, in map order
RECURSIVE line_groups_of(_, _)
line_groups_of(att, resources) ==
    IF resources = <<>> THEN <<>>
    ELSE resource_groups(Head(resources),
                         group_by_namespace(ability_keys(DOMAIN att[Head(resources)]), EmptyMap))
         \o line_groups_of(att, Tail(resources))

\* Capability::to_line_groups: the (resource, namespace, names) triples
to_line_groups(self) ==
    line_groups_of(self.attenuations, str_keys(DOMAIN self.attenuations))

\* Vec<String>::join
RECURSIVE join(_, _)
join(strs, sep) ==
    IF strs = <<>> THEN <<>>
    ELSE IF Len(strs) = 1 THEN strs[1]
    ELSE strs[1] \o sep \o join(Tail(strs), sep)

\* A mutant of statement_line: the names are separated by a comma without a space
statement_line_tight(resource, ns, names) ==
    <<"\"">> \o ns \o <<"\"", ":", " ">>
    \o join([i \in 1..Len(names) |-> <<"\"">> \o names[i] \o <<"\"">>], <<",">>)
    \o <<" ", "f", "o", "r", " ", "\"">> \o resource \o <<"\"", ".">>

\* the format! of to_statement_lines for one triple; each name is quoted
statement_line(resource, ns, names) ==
    <<"\"">> \o ns \o <<"\"", ":", " ">>
    \o join([i \in 1..Len(names) |-> <<"\"">> \o names[i] \o <<"\"">>], <<",", " ">>)
    \o <<" ", "f", "o", "r", " ", "\"">> \o resource \o <<"\"", ".">>

\* the map of to_statement_lines over the triples
lines_of(groups) ==
    [i \in 1..Len(groups) |-> statement_line(groups[i][1], groups[i][2], groups[i][3])]

\* Capability::to_statement_lines
to_statement_lines(self) == lines_of(to_line_groups(self))

\* Display of a usize: its decimal digits
RECURSIVE usize_to_string(_)
usize_to_string(n) ==
    IF n < 10 THEN <<ASCII[n + 17]>>
    ELSE usize_to_string(n \div 10) \o <<ASCII[(n % 10) + 17]>>

\* String::concat of a sequence of strings
RECURSIVE concat(_)
concat(strs) == IF strs = <<>> THEN <<>> ELSE Head(strs) \o concat(Tail(strs))

\* the first element of the array in to_statement
PREAMBLE == <<"I", " ", "f", "u", "r", "t", "h", "e", "r", " ", "a", "u", "t", "h", "o", "r", "i", "z", "e", " ", "t", "h", "e", " ", "s", "t", "a", "t", "e", "d", " ", "U", "R", "I", " ", "t", "o", " ", "p", "e", "r", "f", "o", "r", "m", " ", "t", "h", "e", " ", "f", "o", "l", "l", "o", "w", "i", "n", "g", " ", "a", "c", "t", "i", "o", "n", "s", " ", "o", "n", " ", "m", "y", " ", "b", "e", "h", "a", "l", "f", ":">>

\* A mutant of numbered: the clauses are numbered from 0
numbered_from_zero(lines) ==
    concat([n \in 1..Len(lines) |->
                <<" ", "(">> \o usize_to_string(n - 1) \o <<")", " ">> \o lines[n]])

\* the enumerate().map(..).collect() of to_statement: " (n) line" for each line
numbered(lines) ==
    concat([n \in 1..Len(lines) |->
                <<" ", "(">> \o usize_to_string(n) \o <<")", " ">> \o lines[n]])

\* A mutant of to_statement: the number of proofs is written after the clauses
to_statement_with_proof_count(self) ==
    PREAMBLE \o numbered(to_statement_lines(self)) \o <<" ">> \o usize_to_string(Len(self.proof))

\* Capability::to_statement
to_statement(self) == PREAMBLE \o numbered(to_statement_lines(self))

(***************************************************************************)
(* capability.rs: the SIWE message                                         *)
(***************************************************************************)
\* siwe::Message: the fields the library touches, and the rest as one field
Message(statement, resources, uri, rest) ==
    [statement |-> statement, resources |-> resources, uri |-> uri, rest |-> rest]

\* A mutant of with_statement: the space is written in every case
with_statement_spaced(m, statement) == Some(m \o <<" ">> \o statement)

\* the statement build_message writes: the generated text, after the prior
\* statement and a space when the prior statement is not empty
with_statement(m, statement) ==
    Some(IF m = <<>> THEN statement ELSE m \o <<" ">> \o statement)

\* A mutant of build_message: the encoded entry is put first in the list
build_message_front(self, msg) ==
    IF DOMAIN self.attenuations = {}
    THEN msg
    ELSE [msg EXCEPT
            !.resources = <<UriString_try_from(self)>> \o msg.resources,
            !.statement = with_statement(msg.statement.val, to_statement(self))]

\* A mutant of build_message: a capability that holds proofs is written too
build_message_with_proofs(self, msg) ==
    IF DOMAIN self.attenuations = {} /\ self.proof = <<>>
    THEN msg
    ELSE [msg EXCEPT
            !.resources = Append(msg.resources, UriString_try_from(self)),
            !.statement = with_statement(msg.statement.val, to_statement(self))]

\* Capability::build_message (it returns Ok in every modelled case: encoding
\* cannot fail and the encoded text is a URI); unwrap_or_default of an absent
\* statement is the empty text, which is the filler None holds
build_message(self, msg) ==
    IF DOMAIN self.attenuations = {}
    THEN msg
    ELSE [msg EXCEPT
            !.resources = Append(msg.resources, UriString_try_from(self)),
            !.statement = with_statement(msg.statement.val, to_statement(self))]

\* Result values of extract and extract_and_verify: Ok(None), Ok(Some(c)),
\* Err(e); an IncorrectStatement carries the expected text
OkNone == [tag |-> "OkNone", val |-> new, err |-> "", text |-> <<>>]
OkSome(c) == [tag |-> "OkSome", val |-> c, err |-> "", text |-> <<>>]
Err(e, t) == [tag |-> "Err", val |-> new, err |-> e, text |-> t]

\* the transpose() of extract: Some(Ok(c)) is Ok(Some(c)), Some(Err(e)) is Err(e)
transpose(c) == IF c.ok THEN OkSome(c.val) ELSE Err(c.err, <<>>)

\* the filter(..).map(..) of extract on the entry chosen
extract_entry(u) ==
    IF ~starts_with(u.text, RESOURCE_PREFIX) THEN OkNone
    ELSE transpose(Capability_try_from(u))

\* A mutant of extract: takes the last entry that carries the prefix
extract_last_prefixed(msg) ==
    IF \A i \in 1..Len(msg.resources) : ~starts_with(msg.resources[i].text, RESOURCE_PREFIX)
    THEN OkNone
    ELSE extract_entry(msg.resources[
            CHOOSE i \in 1..Len(msg.resources) :
                /\ starts_with(msg.resources[i].text, RESOURCE_PREFIX)
                /\ \A j \in (i + 1)..Len(msg.resources) :
                        ~starts_with(msg.resources[j].text, RESOURCE_PREFIX)])

\* A mutant of extract: the first entry is looked at instead of the last
extract_first(msg) ==
    IF msg.resources = <<>> THEN OkNone
    ELSE extract_entry(msg.resources[1])

\* Capability::extract: the last entry, if it carries the prefix, is decoded
extract(msg) ==
    IF msg.resources = <<>> THEN OkNone
    ELSE extract_entry(msg.resources[Len(msg.resources)])

\* A mutant of check_statement: accepts the expected text anywhere in the statement
check_statement_contains(statement, c, expected) ==
    IF /\ statement.some
       /\ \E k \in 0..Len(statement.val) :
            starts_with(SubSeq(statement.val, k + 1, Len(statement.val)), expected)
    THEN OkSome(c)
    ELSE Err("IncorrectStatement", expected)

\* A mutant of check_statement: requires the statement to equal the expected text
check_statement_exact(statement, c, expected) ==
    IF statement.some /\ statement.val = expected
    THEN OkSome(c)
    ELSE Err("IncorrectStatement", expected)

\* the match of extract_and_verify on the message's statement
check_statement(statement, c, expected) ==
    IF statement.some /\ ends_with(statement.val, expected)
    THEN OkSome(c)
    ELSE Err("IncorrectStatement", expected)

\* A mutant of verify: the capability is returned without a look at the statement
verify_unchecked(msg, e) == e

\* the if let of extract_and_verify on the extraction's result: an error is
\* passed on by the question mark, Ok(None) is returned as it is
verify(msg, e) ==
    IF e.tag = "OkSome" THEN check_statement(msg.statement, e.val, to_statement(e.val))
    ELSE e

\* Capability::extract_and_verify
extract_and_verify(msg) == verify(msg, extract(msg))

(***************************************************************************)
(* Inputs of the operations.                                               *)
(***************************************************************************)
\* targets (UriString)
TargetA == <<"t", ":", "a">>
TargetB == <<"t", ":", "b">>
Targets == {TargetA, TargetB}

\* abilities: two names in one namespace, and a namespace that extends the
\* first by an asterisk (it sorts before it as an Ability, after it as a string)
AbilityAR == <<(<<"a">>), (<<"r">>)>>
AbilityAW == <<(<<"a">>), (<<"w">>)>>
AbilityStarR == <<(<<"a", "*">>), (<<"r">>)>>
Abilities == {AbilityAR, AbilityAW, AbilityStarR}

\* NotaBene lists; an entry is an opaque map
NotaBenes == {<<>>, <<"n1">>, <<"n1", "n2">>}

\* proofs
Cid1 == <<"c", "1">>
Cid2 == <<"c", "2">>

\* capabilities handed to merge as the other operand, each built by the builder
Operands ==
    { new,
      with_proof(new, Cid2),
      with_proofs(with_action(new, TargetA, AbilityAR, <<"n2">>), <<Cid2, Cid1>>),
      with_action(with_action(new, TargetB, AbilityStarR, <<"n2", "n1">>), TargetA, AbilityAW, <<"n2">>),
      with_actions(with_proofs(new, <<Cid1, <<"c", "3">> >>), TargetA,
                   << <<AbilityAW, <<"n2">> >>, <<AbilityAR, <<"n2", "n2">> >> >>) }

\* the record of the last call: the operation, the capability it was called on
\* and its arguments; fields an operation does not use keep their fillers
NoMessage == Message(None, <<>>, <<>>, "")
NoCall ==
    [op |-> "new", via |-> "", n |-> 0, self |-> new, other |-> new, target |-> <<>>,
     abilities |-> <<>>, proofs |-> <<>>, msg |-> NoMessage, text |-> <<>>, a |-> <<>>, b |-> <<>>]
NoResult == [tag |-> "None"]

(***************************************************************************)
(* Spec: a capability grown from new() by the builder operations, then     *)
(* encoded and decoded.                                                    *)
(***************************************************************************)
Init ==
    /\ cap = new
    /\ message = NoMessage
    /\ call = NoCall
    /\ result = NoResult

Building == call.n < MaxOps /\ call.op # "decode"

WithAction(target, action, nb) ==
    /\ Building
    /\ cap' = with_action(cap, target, action, nb)
    /\ call' = [NoCall EXCEPT !.op = "with_action", !.n = call.n + 1, !.self = cap,
                              !.target = target, !.abilities = << <<action, nb>> >>]
    /\ UNCHANGED <<message, result>>

WithActions(target, abilities) ==
    /\ Building
    /\ cap' = with_actions(cap, target, abilities)
    /\ call' = [NoCall EXCEPT !.op = "with_actions", !.n = call.n + 1, !.self = cap,
                              !.target = target, !.abilities = abilities]
    /\ UNCHANGED <<message, result>>

WithProof(proof) ==
    /\ Building
    /\ cap' = with_proof(cap, proof)
    /\ call' = [NoCall EXCEPT !.op = "with_proof", !.n = call.n + 1, !.self = cap,
                              !.proofs = <<proof>>]
    /\ UNCHANGED <<message, result>>

WithProofs(proofs) ==
    /\ Building
    /\ cap' = with_proofs(cap, proofs)
    /\ call' = [NoCall EXCEPT !.op = "with_proofs", !.n = call.n + 1, !.self = cap,
                              !.proofs = proofs]
    /\ UNCHANGED <<message, result>>

Merge(other) ==
    /\ Building
    /\ cap' = merge(cap, other)
    /\ call' = [NoCall EXCEPT !.op = "merge", !.n = call.n + 1, !.self = cap,
                              !.other = other]
    /\ UNCHANGED <<message, result>>

\* encode the capability and decode the text again
EncodeDecode ==
    /\ call.op # "decode"
    /\ result' = decode(encode(cap))
    /\ call' = [NoCall EXCEPT !.op = "decode", !.n = call.n, !.self = cap]
    /\ UNCHANGED <<cap, message>>

Next ==
    \/ \E t \in Targets, a \in Abilities, nb \in NotaBenes : WithAction(t, a, nb)
    \* with_actions with no pair, with two abilities, and with one ability twice
    \/ \E t \in Targets,
          l \in { <<>>,
                  << <<AbilityAW, <<"n1">> >>, <<AbilityAR, <<>> >> >>,
                  << <<AbilityAR, <<"n2">> >>, <<AbilityAR, <<"n1">> >> >> } : WithActions(t, l)
    \/ \E p \in {Cid1, Cid2} : WithProof(p)
    \/ \E ps \in {<<>>, <<Cid2, Cid1>>, <<Cid1, Cid1>>} : WithProofs(ps)
    \/ \E o \in Operands : Merge(o)
    \/ EncodeDecode

Spec == Init /\ [][Next]_vars

(***************************************************************************)
(* SpecAbility: the parser and the order of Ability, applied to every text *)
(* of a small alphabet: a letter, an allowed special character, the        *)
(* separator and a character the grammar forbids.                          *)
(* The parser of Action (action.rs) is applied to the same texts, the      *)
(* parser of Namespace (namespace.rs) to every text of an alphabet of its  *)
(* own.                                                                    *)
(***************************************************************************)

Texts == UNION {[1..n -> {"a", "*", "/", ":"}] : n \in 0..MaxLen}

\* the abilities that parse from those texts
ParsedAbilities == {Ability_from_str(s).val : s \in {t \in Texts : Ability_from_str(t).ok}}

FromStr(s) ==
    /\ call.op = "new"
    /\ result' = Ability_from_str(s)
    /\ call' = [NoCall EXCEPT !.op = "from_str", !.text = s]
    /\ UNCHANGED <<cap, message>>

Cmp(a, b) ==
    /\ call.op = "new"
    /\ result' = [tag |-> "Ordering", ord |-> cmp(a, b)]
    /\ call' = [NoCall EXCEPT !.op = "cmp", !.a = a, !.b = b]
    /\ UNCHANGED <<cap, message>>

\* Namespace::from_str is called on a text
NamespaceFromStr(s) ==
    /\ call.op = "new"
    /\ result' = Namespace_from_str(s)
    /\ call' = [NoCall EXCEPT !.op = "Namespace::from_str", !.text = s]
    /\ UNCHANGED <<cap, message>>

\* Action::from_str is called on a text
ActionFromStr(s) ==
    /\ call.op = "new"
    /\ result' = Action_from_str(s)
    /\ call' = [NoCall EXCEPT !.op = "Action::from_str", !.text = s]
    /\ UNCHANGED <<cap, message>>

NextAbility ==
    \/ \E s \in Texts : FromStr(s)
    \/ \E a \in ParsedAbilities, b \in ParsedAbilities : Cmp(a, b)
    \/ \E s \in Texts : ActionFromStr(s)
    \* the texts of a letter, a digit, the hyphen and a character the grammar forbids
    \/ \E s \in UNION {[1..n -> {"a", "1", "-", ":"}] : n \in 0..MaxLen} : NamespaceFromStr(s)

SpecAbility == Init /\ [][NextAbility]_vars

(***************************************************************************)
(* SpecMessage: a capability the builder produced is written into a host   *)
(* message, the message is possibly altered afterwards, and it is          *)
(* verified; or a message from elsewhere is received and verified.         *)
(***************************************************************************)
\* capabilities to build messages from: none, proofs only, one or two targets,
\* one or two namespaces, with and without NotaBene entries and proofs
SampleCaps ==
    {new, with_proof(new, Cid1), with_actions(new, TargetB, <<>>)}
    \cup {with_proofs(with_action(c, t, a, nb), ps) :
            c \in {new, with_actions(new, TargetA, << <<AbilityAW, <<"n1">> >>, <<AbilityAR, <<>> >> >>)},
            t \in Targets, a \in Abilities, nb \in {<<>>, <<"n2">>}, ps \in {<<>>, <<Cid2, Cid1>>}}

\* resource entries of other origin
PlainResource == Text(<<"h", ":", "x">>, NoPayload)
\* entries that carry the prefix: two encoded capabilities, text that is not
\* base64, base64 of bytes that are not JSON, a document with an ill-formed
\* ability key, and a document whose prf array repeats an identifier
EncodedY == UriString_try_from(with_proof(with_action(new, TargetB, AbilityStarR, <<>>), Cid1))
ReceivedResources ==
    { PlainResource,
      UriString_try_from(with_action(new, TargetA, AbilityAR, <<"n1">>)),
      EncodedY,
      Text(RESOURCE_PREFIX \o <<"!">>, NoPayload),
      Text(RESOURCE_PREFIX, Base64OfJunk),
      Text(RESOURCE_PREFIX,
           Base64Of([att |-> << <<TargetA, << <<(<<"a", ":", "r">>), <<>> >> >> >> >>,
                     prf |-> <<>>])),
      Text(RESOURCE_PREFIX,
           Base64Of([att |-> << <<TargetA, << <<(<<"a", "/", "r">>), <<>> >> >> >> >>,
                     prf |-> <<Cid1, Cid1>>])) }

\* texts a signer may have written
Greeting == <<"H", "i", ".">>
StatementX == to_statement(with_action(new, TargetA, AbilityAR, <<>>))

\* messages from elsewhere; their statements are around the generated text:
\* absent, empty, unrelated, the text itself, the text after other text, the
\* text followed by a remark, and the text without its first character
ReceivedMessages ==
    {Message(st, rs, <<"d", ":", "x">>, "rest") :
        st \in {None, Some(<<>>), Some(Greeting), Some(StatementX),
                Some(Greeting \o <<" ">> \o StatementX), Some(StatementX \o <<"!">>),
                Some(Tail(StatementX))},
        rs \in UNION {[1..n -> ReceivedResources] : n \in 0..MaxResources}}

\* host messages handed to build_message
HostMessages ==
    {Message(st, rs, <<"d", ":", "x">>, "rest") :
        st \in {None, Some(<<>>), Some(Greeting)},
        rs \in {<<>>, <<PlainResource>>, <<EncodedY, PlainResource>>}}

\* texts appended to a built statement: a remark, the generated statement
\* itself with and without a separating space, and the statement's last two
\* characters
AppendedTexts(t) ==
    {<<"!">>, <<" ">> \o Greeting, t, <<" ">> \o t, SubSeq(t, Len(t) - 1, Len(t))}

InitMessage ==
    /\ cap \in SampleCaps
    /\ message = NoMessage
    /\ call = NoCall
    /\ result = NoResult

BuildMessage(host) ==
    /\ call.op = "new"
    /\ message' = build_message(cap, host)
    /\ call' = [NoCall EXCEPT !.op = "build_message", !.self = cap, !.msg = host]
    /\ UNCHANGED <<cap, result>>

\* the statement is extended after the message was built
AppendStatement(x) ==
    /\ call.op = "build_message"
    /\ message.statement.some
    /\ message' = [message EXCEPT !.statement = Some(message.statement.val \o x)]
    /\ call' = [call EXCEPT !.op = "append", !.text = x]
    /\ UNCHANGED <<cap, result>>

\* the uri field is changed after the message was built
SetUri(u) ==
    /\ call.op = "build_message"
    /\ u # message.uri
    /\ message' = [message EXCEPT !.uri = u]
    /\ call' = [call EXCEPT !.op = "set_uri", !.text = u]
    /\ UNCHANGED <<cap, result>>

\* the payload of a built message is replaced by the encoding of another
\* capability that holds the same (target, ability) pairs
SwapPayload(c) ==
    /\ call.op = "build_message"
    /\ DOMAIN cap.attenuations # {}
    /\ c # cap
    /\ DOMAIN c.attenuations = DOMAIN cap.attenuations
    /\ \A t \in DOMAIN cap.attenuations : DOMAIN c.attenuations[t] = DOMAIN cap.attenuations[t]
    /\ message' = [message EXCEPT !.resources[Len(message.resources)] = UriString_try_from(c)]
    /\ call' = [call EXCEPT !.op = "swap_payload", !.other = c]
    /\ UNCHANGED <<cap, result>>

\* build_message is called a second time, with another capability, on the
\* message the first call returned
BuildAgain(c) ==
    /\ call.op = "build_message"
    /\ DOMAIN cap.attenuations # {}
    /\ DOMAIN c.attenuations # {}
    /\ message' = build_message(c, message)
    /\ call' = [call EXCEPT !.op = "build_again", !.other = c]
    /\ UNCHANGED <<cap, result>>

\* a message arrives from elsewhere
Receive(m) ==
    /\ call.op = "new"
    /\ cap = new
    /\ message' = m
    /\ call' = [NoCall EXCEPT !.op = "receive", !.msg = m]
    /\ UNCHANGED <<cap, result>>

ExtractAndVerify ==
    /\ call.op \in {"build_message", "append", "set_uri", "swap_payload", "build_again", "receive"}
    /\ result' = extract_and_verify(message)
    /\ call' = [call EXCEPT !.op = "extract_and_verify", !.via = call.op]
    /\ UNCHANGED <<cap, message>>

\* the capability a verification returned is merged with another, as the
\* left operand
MergeExtracted(other) ==
    /\ call.op = "extract_and_verify"
    /\ result.tag = "OkSome"
    /\ result' = OkSome(merge(result.val, other))
    /\ call' = [call EXCEPT !.op = "merge_extracted", !.self = result.val, !.other = other]
    /\ UNCHANGED <<cap, message>>

NextMessage ==
    \/ \E host \in HostMessages : BuildMessage(host)
    \/ \E x \in AppendedTexts(to_statement(cap)) : AppendStatement(x)
    \/ \E u \in {<<"d", ":", "x">>, <<"d", ":", "y">>} : SetUri(u)
    \/ \E c \in SampleCaps : SwapPayload(c)
    \/ \E c \in Operands : BuildAgain(c)
    \/ \E m \in ReceivedMessages : Receive(m)
    \/ ExtractAndVerify
    \/ \E o \in Operands : MergeExtracted(o)

SpecMessage == InitMessage /\ [][NextMessage]_vars

(***************************************************************************)
(* SpecQuery: the read operations and the converting operations, called on *)
(* a capability the builder produced.                                      *)
(***************************************************************************)
\* the capabilities queried: those written into messages, the merge operands,
\* and merges of the two, which hold up to four (target, namespace) pairs
QueryCaps ==
    SampleCaps \cup Operands
    \cup {merge(c, with_action(with_action(new, TargetB, AbilityStarR, <<"n2", "n1">>),
                               TargetA, AbilityAW, <<"n2">>)) : c \in SampleCaps}
    \cup {with_action(with_action(c, TargetB, AbilityAR, <<>>), TargetB, AbilityStarR, <<>>) :
            c \in SampleCaps}

InitQuery ==
    /\ cap \in QueryCaps
    /\ message = NoMessage
    /\ call = NoCall
    /\ result = NoResult

\* to_statement is called; the lines it is made of are kept with the text
ToStatement ==
    /\ call.op = "new"
    /\ result' = [tag |-> "Statement", text |-> to_statement(cap),
                  lines |-> to_statement_lines(cap)]
    /\ call' = [NoCall EXCEPT !.op = "to_statement", !.self = cap]
    /\ UNCHANGED <<cap, message>>

\* targets and abilities asked for: those the builder uses, a target no
\* capability holds, an ability no capability holds, and the name r under the
\* namespace a, of which a* is an extension
QueryTargets == Targets \cup {<<"t", ":", "c">>}
QueryAbilities == Abilities \cup {<<(<<"a">>), (<<"x">>)>>}

\* texts handed to the converting operations as targets: three URIs, a text
\* with a space and a text without a scheme
TargetTexts == QueryTargets \cup {<<"t", " ", "a">>, <<"t", "a">>}

\* texts handed to the converting operations as abilities: four abilities, a
\* text without separator, an empty name, a second separator
AbilityTexts ==
    {Ability_to_string(a) : a \in QueryAbilities}
    \cup {<<"a">>, <<"a", "/">>, <<"a", "/", "r", "/", "w">>}

\* can_do is called
CanDo(target, action) ==
    /\ call.op = "new"
    /\ result' = can_do(cap, target, action)
    /\ call' = [NoCall EXCEPT !.op = "can_do", !.self = cap, !.target = target, !.a = action]
    /\ UNCHANGED <<cap, message>>

\* can is called with texts
Can(target, action) ==
    /\ call.op = "new"
    /\ result' = can(cap, target, action)
    /\ call' = [NoCall EXCEPT !.op = "can", !.self = cap, !.text = target, !.a = action]
    /\ UNCHANGED <<cap, message>>

\* with_action_convert is called with texts; it consumes the capability and
\* returns a capability or an error
WithActionConvert(target, action, nb) ==
    /\ call.op = "new"
    /\ result' = with_action_convert(cap, target, action, nb)
    /\ call' = [NoCall EXCEPT !.op = "with_action_convert", !.self = cap, !.text = target,
                              !.abilities = << <<action, nb>> >>]
    /\ UNCHANGED <<cap, message>>

\* with_actions_convert is called with texts
WithActionsConvert(target, abilities) ==
    /\ call.op = "new"
    /\ result' = with_actions_convert(cap, target, abilities)
    /\ call' = [NoCall EXCEPT !.op = "with_actions_convert", !.self = cap, !.text = target,
                              !.abilities = abilities]
    /\ UNCHANGED <<cap, message>>

NextQuery ==
    \/ ToStatement
    \/ \E t \in QueryTargets, a \in QueryAbilities : CanDo(t, a)
    \/ \E t \in TargetTexts, a \in AbilityTexts : Can(t, a)
    \/ \E t \in TargetTexts, a \in AbilityTexts, nb \in NotaBenes : WithActionConvert(t, a, nb)
    \* lists with no pair, with two texts that convert, with a second text that
    \* does not convert, and with a first text that does not convert
    \/ \E t \in TargetTexts,
          l \in { <<>>,
                  << <<(<<"a", "/", "w">>), <<"n1">> >>, <<(<<"a", "/", "r">>), <<>> >> >>,
                  << <<(<<"a", "/", "r">>), <<"n2">> >>, <<(<<"a">>), <<"n1">> >> >>,
                  << <<(<<"a", "/">>), <<>> >>, <<(<<"a", "/", "w">>), <<"n1">> >> >> } :
            WithActionsConvert(t, l)

SpecQuery == InitQuery /\ [][NextQuery]_vars

(***************************************************************************)
(* Properties of building and verifying messages (SpecMessage).            *)
(***************************************************************************)
\* the message was verified right after the step named
Verified(via) == call.op = "extract_and_verify" /\ call.via = via

\* the result is Ok(Some(c')) with the attenuations and the proof list of c
YieldsContentOf(r, c) ==
    /\ r.tag = "OkSome"
    /\ r.val.attenuations = c.attenuations
    /\ r.val.proof = c.proof

\* the result is Err(IncorrectStatement(..))
IsIncorrectStatement(r) == r.tag = "Err" /\ r.err = "IncorrectStatement"

\* the text is some text followed by the suffix
HasSuffix(text, suffix) == \E k \in 0..Len(text) : text = SubSeq(text, 1, k) \o suffix

\* the entry carries the capability prefix
Prefixed(u) == Len(u.text) >= Len(RESOURCE_PREFIX) /\ \A i \in 1..Len(RESOURCE_PREFIX) : u.text[i] = RESOURCE_PREFIX[i]

\* C1: a message built from a capability with at least one attenuation and any
\* host message verifies, and yields the attenuations and the proof list of
\* that capability.
C1_BuildThenVerify ==
    Verified("build_message") /\ DOMAIN cap.attenuations # {} => YieldsContentOf(result, cap)

\* a capability with two targets and two proofs was written into a host
\* message that had a statement and resources, and the message verified
C1_Witness ==
    /\ Verified("build_message")
    /\ Cardinality(DOMAIN cap.attenuations) = 2
    /\ Len(cap.proof) = 2
    /\ call.msg.statement.some /\ call.msg.statement.val # <<>>
    /\ Len(call.msg.resources) = 2
    /\ YieldsContentOf(result, cap)

\* C2 (as amended): after text is appended to the statement of a built
\* message, verification fails with IncorrectStatement exactly when the
\* appended text does not itself end with the generated statement; appended
\* text that ends with the generated statement verifies.
C2_AppendedText ==
    Verified("append") /\ DOMAIN cap.attenuations # {} =>
        IF HasSuffix(call.text, to_statement(cap))
        THEN YieldsContentOf(result, cap)
        ELSE IsIncorrectStatement(result) /\ result.text = to_statement(cap)

\* a remark was appended to a built statement that had a signer's text in
\* front, and verification failed
C2_Witness ==
    /\ Verified("append")
    /\ DOMAIN cap.attenuations # {}
    /\ call.text = <<"!">>
    /\ call.msg.statement.some /\ call.msg.statement.val # <<>>
    /\ IsIncorrectStatement(result)

\* C2 (as stated): appending any non-empty text to the statement of a built
\* message makes verification fail with IncorrectStatement.
C2_AnyAppendedTextFails ==
    Verified("append") /\ DOMAIN cap.attenuations # {} /\ call.text # <<>> =>
        IsIncorrectStatement(result)

PrescribedOutcome(statement, c, r) ==
    IF statement.some /\ HasSuffix(statement.val, to_statement(c))
    THEN r = OkSome(c)
    ELSE r = Err("IncorrectStatement", to_statement(c))

\* the last entry of a resource list
LastEntry(resources) == resources[Len(resources)]

\* the extracted payload decodes
Decodes(resources) ==
    /\ resources # <<>>
    /\ Prefixed(LastEntry(resources))
    /\ Capability_try_from(LastEntry(resources)).ok

\* C4: when the extracted payload decodes to c, the result is Ok(Some(c)) if
\* the statement is present and ends with to_statement(c), and otherwise,
\* an absent statement included, IncorrectStatement carrying to_statement(c).
C4_StatementSuffix ==
    call.op = "extract_and_verify" /\ Decodes(message.resources) =>
        PrescribedOutcome(message.statement,
                          Capability_try_from(LastEntry(message.resources)).val, result)

\* a received message whose statement has a signer's text before the
\* generated text verified
C4_Witness ==
    /\ Verified("receive")
    /\ Decodes(message.resources)
    /\ message.statement = Some(Greeting \o <<" ">> \o StatementX)
    /\ result.tag = "OkSome"

\* C5 (as amended): the result is Ok(None) exactly when the resource list is
\* empty or its last entry does not carry the prefix; when the last entry
\* carries it, the result is a capability or an error.
C5_LastEntryDecides ==
    call.op = "extract_and_verify" =>
        /\ result.tag \in {"OkNone", "OkSome", "Err"}
        /\ result.tag = "OkNone" <=>
             (message.resources = <<>> \/ ~Prefixed(LastEntry(message.resources)))

\* a message whose first entry carries the prefix and whose last entry does
\* not was verified, with the result Ok(None)
C5_Witness ==
    /\ call.op = "extract_and_verify"
    /\ Len(message.resources) = 2
    /\ Prefixed(message.resources[1])
    /\ ~Prefixed(message.resources[2])
    /\ result.tag = "OkNone"

\* C5 (as stated): the result is Ok(None) exactly when no entry of the
\* resource list carries the prefix.
C5_NoEntryPrefixed ==
    call.op = "extract_and_verify" =>
        (result.tag = "OkNone" <=>
            \A i \in 1..Len(message.resources) : ~Prefixed(message.resources[i]))

\* the capability was written into the host message by the last call
Built == call.op = "build_message" /\ DOMAIN cap.attenuations # {}

\* C16 (as amended): build_message with a capability that has attenuations
\* sets the statement to exactly to_statement(c) when the host message
\* carries no statement or an empty one, and to the prior statement, one
\* space and to_statement(c) when it carries a non-empty statement.
C16_StatementWritten ==
    Built =>
        message.statement =
            Some(IF ~call.msg.statement.some \/ call.msg.statement.val = <<>>
                 THEN to_statement(cap)
                 ELSE call.msg.statement.val \o <<" ">> \o to_statement(cap))

\* a capability was written into a host message with an empty statement, and
\* the statement is the generated text without a space in front
C16_Witness ==
    /\ Built
    /\ call.msg.statement = Some(<<>>)
    /\ message.statement = Some(to_statement(cap))

\* C16 (as stated): the statement is exactly to_statement(c) when the host
\* message carries no statement, and s, one space and to_statement(c) when it
\* carries a statement s, for every text s.
C16_SpaceAfterEveryStatement ==
    Built =>
        message.statement =
            Some(IF ~call.msg.statement.some
                 THEN to_statement(cap)
                 ELSE call.msg.statement.val \o <<" ">> \o to_statement(cap))

\* the entry is the prefix followed by the encoded capability
IsEncodedEntry(u, c) ==
    /\ u.text = RESOURCE_PREFIX \o encode(c).text
    /\ u.payload = encode(c).payload

\* C17: build_message with a capability that has attenuations keeps the prior
\* resource entries in their order, adds one entry, the prefix followed by
\* encode(c), as the last, and changes no field other than statement and
\* resources.
C17_ResourceAppended ==
    Built =>
        /\ Len(message.resources) = Len(call.msg.resources) + 1
        /\ SubSeq(message.resources, 1, Len(call.msg.resources)) = call.msg.resources
        /\ IsEncodedEntry(message.resources[Len(message.resources)], cap)
        /\ DOMAIN message = DOMAIN call.msg
        /\ \A f \in DOMAIN message \ {"statement", "resources"} : message[f] = call.msg[f]

\* a capability with proofs was written into a host message that held two
\* resources, one of them an encoded capability
C17_Witness ==
    /\ Built
    /\ cap.proof # <<>>
    /\ Len(call.msg.resources) = 2
    /\ Len(message.resources) = 3
    /\ starts_with(message.resources[1].text, RESOURCE_PREFIX)
    /\ IsEncodedEntry(message.resources[3], cap)

\* C18: build_message leaves resources and statement unchanged exactly when
\* the attenuation map is empty, also when the capability holds proofs; with a
\* non-empty attenuation map both fields change.
C18_EmptyLeavesMessage ==
    call.op = "build_message" =>
        IF DOMAIN cap.attenuations = {}
        THEN message = call.msg
        ELSE /\ message.resources # call.msg.resources
             /\ message.statement # call.msg.statement

\* a capability with a proof and no attenuation was applied to a host message
\* with a statement and resources, and the message is returned as it was
C18_Witness ==
    /\ call.op = "build_message"
    /\ DOMAIN cap.attenuations = {}
    /\ cap.proof # <<>>
    /\ call.msg.statement.some /\ call.msg.statement.val # <<>>
    /\ call.msg.resources # <<>>
    /\ message = call.msg

\* the two capabilities hold the same (target, ability) pairs
SamePairs(c, d) ==
    /\ DOMAIN c.attenuations = DOMAIN d.attenuations
    /\ \A t \in DOMAIN c.attenuations : DOMAIN c.attenuations[t] = DOMAIN d.attenuations[t]

\* C23: capabilities with the same (target, ability) pairs have the same
\* statement, whatever their NotaBene lists and proofs; a built message whose
\* payload is replaced by the encoding of such a capability still verifies,
\* and yields the replacing capability.
C23_StatementOfPairsOnly ==
    /\ \A c \in SampleCaps : SamePairs(c, cap) => to_statement(c) = to_statement(cap)
    /\ Verified("swap_payload") => YieldsContentOf(result, call.other)

\* a message built from one capability verified with the payload of another
\* that has other proofs and other NotaBene lists
C23_Witness ==
    /\ Verified("swap_payload")
    /\ SamePairs(call.other, cap)
    /\ call.other.proof # cap.proof
    /\ \E t \in DOMAIN cap.attenuations : call.other.attenuations[t] # cap.attenuations[t]
    /\ YieldsContentOf(result, call.other)
    /\ HasSuffix(message.statement.val, to_statement(cap))

\* the statement of the host message followed by a space, or nothing when the
\* host message has no statement or an empty one
HostLead(host) ==
    IF ~host.statement.some \/ host.statement.val = <<>> THEN <<>>
    ELSE host.statement.val \o <<" ">>

\* C24: after build_message with c1 and then with c2 on the same message,
\* both with attenuations, the resource list ends with the entry of c1
\* followed by the entry of c2, the statement ends with the text of c1, a
\* space and the text of c2, and extract_and_verify succeeds with the content
\* of c2 alone.
C24_SecondBuildWins ==
    /\ call.op = "build_again" =>
        /\ Len(message.resources) = Len(call.msg.resources) + 2
        /\ SubSeq(message.resources, 1, Len(call.msg.resources)) = call.msg.resources
        /\ IsEncodedEntry(message.resources[Len(message.resources) - 1], cap)
        /\ IsEncodedEntry(message.resources[Len(message.resources)], call.other)
        /\ message.statement =
                Some(HostLead(call.msg) \o to_statement(cap) \o <<" ">> \o to_statement(call.other))
    /\ Verified("build_again") => YieldsContentOf(result, call.other)

\* two capabilities with different targets and proofs were written one after
\* the other into a message, and the message verified with the second
C24_Witness ==
    /\ Verified("build_again")
    /\ DOMAIN cap.attenuations # DOMAIN call.other.attenuations
    /\ cap.proof # call.other.proof
    /\ Len(message.resources) >= 2
    /\ IsEncodedEntry(message.resources[Len(message.resources) - 1], cap)
    /\ YieldsContentOf(result, call.other)
    /\ ~YieldsContentOf(result, cap)

(***************************************************************************)
(* Properties of the builder and the codec (Spec).                         *)
(***************************************************************************)
\* the (target, ability) slots of a capability
Slots(c) == UNION {{<<t, ab>> : ab \in DOMAIN c.attenuations[t]} : t \in DOMAIN c.attenuations}

\* the NotaBene list of a slot, an absent slot counting as empty
SlotList(c, s) == IF s \in Slots(c) THEN c.attenuations[s[1]][s[2]] ELSE <<>>

NoDuplicates(v) == \A i, j \in 1..Len(v) : v[i] = v[j] => i = j

\* C6: decoding the encoded capability succeeds and gives the same attenuation
\* map and the same proof list, for every capability the builder produces.
C6_RoundTrip ==
    call.op = "decode" =>
        /\ result.ok
        /\ result.val.attenuations = cap.attenuations
        /\ result.val.proof = cap.proof

\* a capability with two targets, a non-empty NotaBene list and two proofs was
\* encoded and decoded
C6_Witness ==
    /\ call.op = "decode"
    /\ result.ok
    /\ Cardinality(DOMAIN cap.attenuations) = 2
    /\ Len(cap.proof) = 2
    /\ \E s \in Slots(cap) : Len(SlotList(cap, s)) = 2

\* C9: after merge(a, b) the slots are those of a and those of b, and each
\* slot holds a's list followed by b's list.
C9_MergeSlots ==
    call.op = "merge" =>
        /\ Slots(cap) = Slots(call.self) \cup Slots(call.other)
        /\ \A s \in Slots(cap) : SlotList(cap, s) = SlotList(call.self, s) \o SlotList(call.other, s)

\* a merge with a slot both operands fill, a slot only the left operand has
\* and a slot only the right operand has
C9_Witness ==
    /\ call.op = "merge"
    /\ \E s \in Slots(call.self) \cap Slots(call.other) :
            SlotList(call.self, s) # <<>> /\ SlotList(call.other, s) # <<>>
    /\ Slots(call.self) \ Slots(call.other) # {}
    /\ Slots(call.other) \ Slots(call.self) # {}

BuilderOps == {"with_action", "with_actions", "with_proof", "with_proofs", "merge"}

\* C10: the proof list never holds a proof twice; every builder call keeps the
\* proofs held before, with_proof, with_proofs and merge add exactly the proofs
\* handed to them, and adding only proofs already present changes nothing.
C10_ProofSet ==
    /\ NoDuplicates(cap.proof)
    /\ call.op \in BuilderOps => Range(call.self.proof) \subseteq Range(cap.proof)
    /\ call.op \in {"with_proof", "with_proofs"} =>
        /\ Range(cap.proof) = Range(call.self.proof) \cup Range(call.proofs)
        /\ Range(call.proofs) \subseteq Range(call.self.proof) => cap.proof = call.self.proof
    /\ call.op = "merge" =>
        Range(cap.proof) = Range(call.self.proof) \cup Range(call.other.proof)

\* a merge whose operands share one proof and each hold one the other lacks
C10_Witness ==
    /\ call.op = "merge"
    /\ Range(call.self.proof) \cap Range(call.other.proof) # {}
    /\ Range(call.other.proof) \ Range(call.self.proof) # {}
    /\ Range(call.self.proof) \ Range(call.other.proof) # {}

\* the two capabilities have the same slots, the same NotaBene list in every
\* slot and the same set of proofs
SameSlotsAndProofs(p, q) ==
    /\ Slots(p) = Slots(q)
    /\ \A s \in Slots(p) : SlotList(p, s) = SlotList(q, s)
    /\ Range(p.proof) = Range(q.proof)

\* C11: the grouping of merges does not matter.  After merge(a, b), for every
\* further operand c, merge(merge(a, b), c) and merge(a, merge(b, c)) agree in
\* every slot and in the set of proofs, and so do merge(merge(c, a), b) and
\* merge(c, merge(a, b)).
C11_MergeGrouping ==
    call.op = "merge" =>
        \A c \in Operands :
            /\ SameSlotsAndProofs(merge(cap, c), merge(call.self, merge(call.other, c)))
            /\ SameSlotsAndProofs(merge(merge(c, call.self), call.other), merge(c, cap))

\* a merge of two capabilities for which a third operand fills a slot both
\* already fill, and holds a slot neither has
C11_Witness ==
    /\ call.op = "merge"
    /\ \E c \in Operands :
        /\ \E s \in Slots(call.self) \cap Slots(call.other) \cap Slots(c) :
                /\ SlotList(call.self, s) # <<>>
                /\ SlotList(call.other, s) # <<>>
                /\ SlotList(c, s) # <<>>
                /\ SlotList(call.self, s) # SlotList(call.other, s)
        /\ Slots(c) \ (Slots(call.self) \cup Slots(call.other)) # {}
        /\ Range(c.proof) \cap Range(cap.proof) # {}

\* with_action applied to each (ability, nbs) pair of a list, in order
RECURSIVE EachWithAction(_, _, _)
EachWithAction(self, target, pairs) ==
    IF pairs = <<>> THEN self
    ELSE EachWithAction(with_action(self, target, Head(pairs)[1], Head(pairs)[2]),
                        target, Tail(pairs))

\* the call appended nbs to the end of the slot's list and left every other
\* slot and the proof list as they were
AppendedToSlot(before, after, target, ability, nbs) ==
    /\ Slots(after) = Slots(before) \cup {<<target, ability>>}
    /\ SlotList(after, <<target, ability>>) = SlotList(before, <<target, ability>>) \o nbs
    /\ \A s \in Slots(before) \ {<<target, ability>>} : SlotList(after, s) = SlotList(before, s)
    /\ after.proof = before.proof

\* C12: with_action appends the NotaBene entries, in order and with
\* duplicates kept, to the end of the slot's list, creating the slot if it is
\* absent, and leaves every other slot and the proof list unchanged;
\* with_actions gives the same capability as with_action applied to each pair
\* in order.
C12_WithActionAppends ==
    /\ call.op = "with_action" =>
            AppendedToSlot(call.self, cap, call.target,
                           call.abilities[1][1], call.abilities[1][2])
    /\ call.op = "with_actions" =>
            cap = EachWithAction(call.self, call.target, call.abilities)

\* with_actions was called with an empty list for a target the capability did
\* not hold, and the capability holds the target afterwards
C12_Witness ==
    /\ call.op = "with_actions"
    /\ call.abilities = <<>>
    /\ call.target \notin DOMAIN call.self.attenuations
    /\ call.target \in DOMAIN cap.attenuations
    /\ cap.attenuations[call.target] = EmptyMap

\* a list back to front
BackToFront(l) == [i \in 1..Len(l) |-> l[Len(l) + 1 - i]]

\* the two capabilities hold the same attenuations and the same set of proofs
SameContent(p, q) ==
    /\ p.attenuations = q.attenuations
    /\ Range(p.proof) = Range(q.proof)

\* the read operations return the same for both capabilities
SameReads(p, q) ==
    /\ abilities_of(p) = abilities_of(q)
    /\ proof_of(p) = proof_of(q)
    /\ to_statement(p) = to_statement(q)
    /\ encode(p) = encode(q)

\* C13: two capabilities built by different orders of builder calls that hold
\* the same attenuations and the same set of proofs return the same from
\* abilities(), proof(), to_statement() and encode().  The capability after
\* with_proofs is compared with the one built by adding the same proofs in
\* the opposite order.
C13_OrderIndependentReads ==
    call.op = "with_proofs" =>
        (SameContent(cap, with_proofs(call.self, BackToFront(call.proofs)))
            => SameReads(cap, with_proofs(call.self, BackToFront(call.proofs))))

\* two proofs were added to a capability without proofs; adding them in the
\* opposite order gives the same content and another proof list
C13_Witness ==
    /\ call.op = "with_proofs"
    /\ call.self.proof = <<>>
    /\ Len(cap.proof) = 2
    /\ SameContent(cap, with_proofs(call.self, BackToFront(call.proofs)))
    /\ proof_of(cap) # proof_of(with_proofs(call.self, BackToFront(call.proofs)))
    /\ to_statement(cap) = to_statement(with_proofs(call.self, BackToFront(call.proofs)))

\* The next property is about capabilities that come out of a verification
\* (SpecMessage).
\* C25: the proof list of a capability holds no identifier twice, also when
\* the capability is returned by extract_and_verify (and so by decode) from a
\* payload whose prf array repeats an identifier, and also after such a
\* capability was the left operand of merge.
C25_ProofListDistinct ==
    /\ NoDuplicates(cap.proof)
    /\ result.tag = "OkSome" => NoDuplicates(result.val.proof)

\* a payload whose prf array holds one identifier twice was verified, the
\* capability returned was merged with another, and the merged capability
\* holds that identifier twice
C25_Witness ==
    /\ call.op = "merge_extracted"
    /\ call.via = "receive"
    /\ call.self.proof = <<Cid1, Cid1>>
    /\ call.other.proof # <<>>
    /\ result.tag = "OkSome"
    /\ SubSeq(result.val.proof, 1, 2) = <<Cid1, Cid1>>

(***************************************************************************)
(* Properties of the read and the converting operations (SpecQuery).       *)
(***************************************************************************)
\* the (target, ability namespace) pairs present in the attenuations
NamespacePairs(c) ==
    UNION {{<<t, ab[1]>> : ab \in DOMAIN c.attenuations[t]} : t \in DOMAIN c.attenuations}

\* the clause of a pair: its namespace, the names the target holds in that
\* namespace, and the target
ClauseOf(c, pair) ==
    statement_line(pair[1], pair[2],
                   [i \in 1..Len(ability_keys({ab \in DOMAIN c.attenuations[pair[1]] : ab[1] = pair[2]})) |->
                        ability_keys({ab \in DOMAIN c.attenuations[pair[1]] : ab[1] = pair[2]})[i][2]])

\* the arrangements of the pairs, each pair once, targets ascending
Arrangements(pairs) ==
    {f \in [1..Cardinality(pairs) -> pairs] :
        /\ \A i, j \in 1..Cardinality(pairs) : f[i] = f[j] => i = j
        /\ \A i, j \in 1..Cardinality(pairs) : i < j => str_cmp(f[i][1], f[j][1]) # Greater}

\* the decimal digits of the numbers 1 to 9
DecimalDigit == <<"1", "2", "3", "4", "5", "6", "7", "8", "9">>

\* the clauses from the k-th on, each after a space and its number in parentheses
RECURSIVE NumberedClauses(_, _, _)
NumberedClauses(c, order, k) ==
    IF k > Len(order) THEN <<>>
    ELSE <<" ", "(", DecimalDigit[k], ")", " ">> \o ClauseOf(c, order[k])
         \o NumberedClauses(c, order, k + 1)

\* C14: the statement is the preamble followed by one clause for each
\* (target, namespace) pair present, targets ascending, each clause after a
\* space and its number in parentheses, the numbers running from 1 on across
\* all targets; with no pair it is the preamble alone.
C14_StatementShape ==
    call.op = "to_statement" =>
        \E order \in Arrangements(NamespacePairs(cap)) :
            result.text = PREAMBLE \o NumberedClauses(cap, order, 1)

\* the statement of a capability with two targets and two namespaces under
\* each was generated, with four numbered clauses
C14_Witness ==
    /\ call.op = "to_statement"
    /\ Cardinality(DOMAIN cap.attenuations) = 2
    /\ Cardinality(NamespacePairs(cap)) = 4
    /\ Len(result.lines) = 4
    /\ \E order \in Arrangements(NamespacePairs(cap)) :
            result.text = PREAMBLE \o NumberedClauses(cap, order, 1)

\* the names one after the other, each between the given marks, separated by
\* a comma and a space
RECURSIVE NameList(_, _)
NameList(names, mark) ==
    IF names = <<>> THEN <<>>
    ELSE mark \o Head(names) \o mark
         \o (IF Tail(names) = <<>> THEN <<>> ELSE <<",", " ">> \o NameList(Tail(names), mark))

\* a clause: the namespace in double quotes, a colon and a space, the names,
\* the word for between spaces, the target in double quotes, a period
RenderedClause(target, ns, names, mark) ==
    <<"\"">> \o ns \o <<"\"", ":", " ">> \o NameList(names, mark)
    \o <<" ", "f", "o", "r", " ">> \o <<"\"">> \o target \o <<"\"", ".">>

\* every line is the clause of its (target, namespace, names) triple, the
\* names between the given marks
LinesRendered(lines, groups, mark) ==
    /\ Len(lines) = Len(groups)
    /\ \A i \in 1..Len(groups) :
            lines[i] = RenderedClause(groups[i][1], groups[i][2], groups[i][3], mark)

\* C15 (as amended): each clause is the namespace in double quotes, a colon
\* and a space, the ability names each in double quotes and separated by a
\* comma and a space, then " for ", the target in double quotes, and a period.
C15_ClauseQuotedNames ==
    call.op = "to_statement" => LinesRendered(result.lines, to_line_groups(cap), <<"\"">>)

\* a clause with two names was rendered, each name in double quotes
C15_Witness ==
    /\ call.op = "to_statement"
    /\ \E i \in 1..Len(result.lines) :
        /\ Len(to_line_groups(cap)[i][3]) = 2
        /\ result.lines[i] =
                <<"\"", "a", "\"", ":", " ", "\"", "r", "\"", ",", " ", "\"", "w", "\"",
                  " ", "f", "o", "r", " ", "\"", "t", ":", "a", "\"", ".">>

\* C15 (as stated): each clause is the namespace in double quotes, a colon and
\* a space, the ability names separated by a comma and a space with no
\* quotation marks around the names, then " for ", the target in double
\* quotes, and a period.
C15_ClauseBareNames ==
    call.op = "to_statement" => LinesRendered(result.lines, to_line_groups(cap), <<>>)

\* what an exact lookup of the slot gives: its list, or None when the
\* capability has no such slot
ExactLookup(c, target, ability) ==
    IF \E t \in DOMAIN c.attenuations :
            t = target /\ \E ab \in DOMAIN c.attenuations[t] : ab = ability
    THEN Some(c.attenuations[target][ability])
    ELSE None

AllConvert(pairs) == \A i \in 1..Len(pairs) : Ability_from_str(pairs[i][1]).ok

\* the list with every ability text replaced by the ability it converts to
ConvertedPairs(pairs) ==
    [i \in 1..Len(pairs) |-> <<Ability_from_str(pairs[i][1]).val, pairs[i][2]>>]

\* the call failed with one of the two conversion errors and returned no capability
FailedWhole(r, errs) == ~r.ok /\ r.err \in errs /\ r.val = <<>>

\* C20: with_action_convert and with_actions_convert return InvalidTarget
\* when the target does not convert and InvalidAction when the target
\* converts and an ability does not, and then return no capability; when
\* everything converts the result is that of with_action / with_actions on
\* the converted values.
C20_AllOrNothing ==
    /\ call.op = "with_action_convert" =>
        IF ~UriString_from_str(call.text).ok
        THEN FailedWhole(result, {"InvalidTarget"})
        ELSE IF ~AllConvert(call.abilities)
        THEN FailedWhole(result, {"InvalidAction"})
        ELSE result = ConvOk(with_action(call.self, UriString_from_str(call.text).val,
                                         ConvertedPairs(call.abilities)[1][1],
                                         call.abilities[1][2]))
    /\ call.op = "with_actions_convert" =>
        IF ~UriString_from_str(call.text).ok
        THEN FailedWhole(result, {"InvalidTarget"})
        ELSE IF ~AllConvert(call.abilities)
        THEN FailedWhole(result, {"InvalidAction"})
        ELSE result = ConvOk(with_actions(call.self, UriString_from_str(call.text).val,
                                          ConvertedPairs(call.abilities)))

\* with_actions_convert was called with a target that converts and a list
\* whose first ability converts and whose second does not, and failed
C20_Witness ==
    /\ call.op = "with_actions_convert"
    /\ UriString_from_str(call.text).ok
    /\ Len(call.abilities) = 2
    /\ Ability_from_str(call.abilities[1][1]).ok
    /\ ~Ability_from_str(call.abilities[2][1]).ok
    /\ FailedWhole(result, {"InvalidAction"})

\* the clauses of one target are in ascending string order of their namespaces
InNamespaceOrder(order) ==
    \A i, j \in DOMAIN order :
        (i < j /\ order[i][1] = order[j][1]) => str_cmp(order[i][2], order[j][2]) = Less

\* the first ability, in Ability order, that a target holds in a namespace
FirstOf(c, pair) == least_ability({ab \in DOMAIN c.attenuations[pair[1]] : ab[1] = pair[2]})

\* the clauses of one target are in the order in which their namespaces first
\* occur among the target's abilities in Ability order
InAbilityOrder(c, order) ==
    \A i, j \in DOMAIN order :
        (i < j /\ order[i][1] = order[j][1]) =>
            cmp(FirstOf(c, order[i]), FirstOf(c, order[j])) = Less

\* C21 (as amended): within one target the clauses appear in ascending string
\* order of their namespaces, and the names of a clause are in ascending
\* Ability order; the namespace a precedes the namespace a*, although the
\* abilities of a* precede those of a in Ability order.
C21_ClausesByNamespace ==
    call.op = "to_statement" =>
        \E order \in Arrangements(NamespacePairs(cap)) :
            /\ InNamespaceOrder(order)
            /\ result.text = PREAMBLE \o NumberedClauses(cap, order, 1)

\* the statement of a capability whose target t:b holds a/r and a*/r was
\* generated: the clause of a is followed by the clause of a*
C21_Witness ==
    /\ call.op = "to_statement"
    /\ TargetB \in DOMAIN cap.attenuations
    /\ DOMAIN cap.attenuations[TargetB] = {AbilityAR, AbilityStarR}
    /\ cmp(AbilityStarR, AbilityAR) = Less
    /\ \E i \in 1..(Len(result.lines) - 1) :
        /\ result.lines[i] = RenderedClause(TargetB, <<"a">>, << <<"r">> >>, <<"\"">>)
        /\ result.lines[i + 1] = RenderedClause(TargetB, <<"a", "*">>, << <<"r">> >>, <<"\"">>)

\* C21 (as stated): within one target the clauses appear in the order in
\* which their namespaces first occur when the target's abilities are walked
\* in Ability order, so that the (namespace, name) pairs of the target's
\* clauses read from left to right are in ascending Ability order.
C21_ClausesInAbilityOrder ==
    call.op = "to_statement" =>
        \E order \in Arrangements(NamespacePairs(cap)) :
            /\ InAbilityOrder(cap, order)
            /\ result.text = PREAMBLE \o NumberedClauses(cap, order, 1)

(***************************************************************************)
(* Properties of the Ability parser and order (SpecAbility).               *)
(***************************************************************************)
\* the byte-wise lexicographic order of two texts, a proper prefix first
RECURSIVE Lexicographic(_, _)
Lexicographic(s, t) ==
    IF s = <<>> THEN (IF t = <<>> THEN Equal ELSE Less)
    ELSE IF t = <<>> THEN Greater
    ELSE IF Byte(Head(s)) < Byte(Head(t)) THEN Less
    ELSE IF Byte(Head(s)) > Byte(Head(t)) THEN Greater
    ELSE Lexicographic(Tail(s), Tail(t))

Reverse(ord) == IF ord = Less THEN Greater ELSE IF ord = Greater THEN Less ELSE Equal

\* C7: cmp(a, b) is the byte-wise lexicographic order of the texts
\* namespace/name, a proper prefix before the longer text; it is Equal only
\* for equal abilities, antisymmetric, and transitive.
C7_TotalOrder ==
    call.op = "cmp" =>
        LET a == call.a
            b == call.b
        IN  /\ result.ord = Lexicographic(a[1] \o <<"/">> \o a[2], b[1] \o <<"/">> \o b[2])
            /\ (result.ord = Equal) <=> (a = b)
            /\ cmp(b, a) = Reverse(result.ord)
            /\ \A c \in ParsedAbilities :
                    result.ord = Less /\ cmp(b, c) = Less => cmp(a, c) = Less

\* the namespace with the asterisk was compared with the namespace it extends
\* and sorted first, although its namespace is the longer string
C7_Witness ==
    /\ call.op = "cmp"
    /\ call.a = <<(<<"a", "*">>), (<<"a">>)>>
    /\ call.b = <<(<<"a">>), (<<"a">>)>>
    /\ result.ord = Less

\* the characters a namespace or a name may hold
Letters == {"a", "b", "c", "d", "e", "f", "g", "h", "i", "j", "k", "l", "m", "n", "o", "p", "q", "r", "s", "t", "u", "v", "w", "x", "y", "z", "A", "B", "C", "D", "E", "F", "G", "H", "I", "J", "K", "L", "M", "N", "O", "P", "Q", "R", "S", "T", "U", "V", "W", "X", "Y", "Z"}
Digits == {"0", "1", "2", "3", "4", "5", "6", "7", "8", "9"}
WellFormedHalf(h) ==
    h # <<>> /\ \A i \in 1..Len(h) : h[i] \in Letters \cup Digits \cup {"-", "_", ".", "+", "*"}

\* C8: from_str fails with MissingSeparator when the text has no slash;
\* otherwise, split at the first slash, it fails with the InvalidCharacter of
\* the namespace half if that is empty or ill-formed, else with that of the
\* name half if that is empty or ill-formed, and else returns the two halves.
C8_FromStr ==
    call.op = "from_str" =>
        LET s == call.text
        IN  IF \A i \in 1..Len(s) : s[i] # "/"
            THEN ~result.ok /\ result.err = "MissingSeparator"
            ELSE \E i \in 1..Len(s) :
                    /\ s[i] = "/"
                    /\ \A j \in 1..(i - 1) : s[j] # "/"
                    /\ LET ns == SubSeq(s, 1, i - 1)
                           nm == SubSeq(s, i + 1, Len(s))
                       IN  IF ~WellFormedHalf(ns)
                           THEN ~result.ok /\ result.err = "Namespace" /\ result.text = ns
                           ELSE IF ~WellFormedHalf(nm)
                           THEN ~result.ok /\ result.err = "Name" /\ result.text = nm
                           ELSE result.ok /\ result.val = <<ns, nm>>

\* a text with a second slash was rejected for its name half
C8_Witness ==
    /\ call.op = "from_str"
    /\ call.text = <<"a", "/", "a", "/">>
    /\ ~result.ok
    /\ result.err = "Name"
    /\ result.text = <<"a", "/">>

\* a position of the text that breaks the grammar of a namespace: a character
\* that is neither an ASCII alphanumeric nor a hyphen, or a hyphen at the
\* start or right after a hyphen
Offending(s, i) ==
    \/ s[i] \notin Letters \cup Digits \cup {"-"}
    \/ s[i] = "-" /\ (i = 1 \/ s[i - 1] = "-")

\* the text is well formed: not empty, only ASCII alphanumerics and hyphens,
\* no hyphen at the start or the end, no two hyphens in a row
WellFormedNamespace(s) ==
    /\ s # <<>>
    /\ \A i \in 1..Len(s) : s[i] \in Letters \cup Digits \cup {"-"}
    /\ s[1] # "-" /\ s[Len(s)] # "-"
    /\ \A i \in 1..(Len(s) - 1) : ~(s[i] = "-" /\ s[i + 1] = "-")

\* C22: Namespace::from_str accepts exactly the well-formed texts; of a
\* rejected text the first offending position decides the error:
\* InvalidNamespaceHyphens for a misplaced hyphen, InvalidNamespaceChars for
\* any other character, and InvalidNamespaceHyphens when no position offends
\* and the text is empty or ends with a hyphen.
C22_NamespaceGrammar ==
    call.op = "Namespace::from_str" =>
        /\ result.ok <=> WellFormedNamespace(call.text)
        /\ result.ok => result.val = call.text
        /\ ~result.ok =>
            IF \E i \in 1..Len(call.text) : Offending(call.text, i)
            THEN \E i \in 1..Len(call.text) :
                    /\ Offending(call.text, i)
                    /\ \A j \in 1..(i - 1) : ~Offending(call.text, j)
                    /\ result.err = IF call.text[i] = "-" THEN "InvalidNamespaceHyphens"
                                    ELSE "InvalidNamespaceChars"
            ELSE /\ call.text = <<>> \/ call.text[Len(call.text)] = "-"
                 /\ result.err = "InvalidNamespaceHyphens"

\* a text with two hyphens in a row between alphanumerics was rejected for
\* its hyphens
C22_Witness ==
    /\ call.op = "Namespace::from_str"
    /\ call.text = <<"a", "-", "-", "1">>
    /\ ~result.ok
    /\ result.err = "InvalidNamespaceHyphens"

\* a half of an action text is well formed: not empty, only alphanumerics
\* and the characters - . _ +
WellFormedActionHalf(h) ==
    h # <<>> /\ \A i \in 1..Len(h) : h[i] \in Letters \cup Digits \cup {"-", ".", "_", "+"}

\* C26: Action::from_str fails with MissingSeparator only when the text has
\* no slash, and accepts a text whose halves around the first slash are
\* non-empty and made of alphanumerics and the characters - . _ +, as
\* ActionNamespace::from_str and ActionName::from_str accept such halves.
C26_ActionGrammar ==
    call.op = "Action::from_str" =>
        /\ (~result.ok /\ result.err = "MissingSeparator") <=> ~contains_char(call.text, "/")
        /\ \A i \in 1..Len(call.text) :
                (/\ call.text[i] = "/"
                 /\ WellFormedActionHalf(SubSeq(call.text, 1, i - 1))
                 /\ WellFormedActionHalf(SubSeq(call.text, i + 1, Len(call.text))))
                => result = ParseOk(<<SubSeq(call.text, 1, i - 1),
                                      SubSeq(call.text, i + 1, Len(call.text))>>)

\* a text of a letter, a slash and a letter was rejected for its namespace half
C26_Witness ==
    /\ call.op = "Action::from_str"
    /\ call.text = <<"a", "/", "a">>
    /\ result = ParseErr("Namespace", <<"a">>)

====
